---- MODULE Spec2Model ----
(***************************************************************************)
(* State-machine model of the hybrid retrieval engine                      *)
(* (modulo_consultas_parlamentarias/retriever/retriever.py) together with  *)
(* the collaborators it drives: the dense embedding provider, the          *)
(* cache-backed embedding wrapper and its byte stores, and the vector      *)
(* database.  Synchronous methods are single atomic steps; the async       *)
(* search methods are split at their one await.                            *)
(***************************************************************************)
EXTENDS Integers, Sequences, FiniteSets, TLC

\* ---------------------------------------------------------------- bounds
NumRetrievers == 2      \* Retriever objects that may be constructed
MaxChunks == 2          \* chunks in one insert_text_chunks call
MaxIds == 3             \* uuid4 values drawn in one run
NumTasks == 2           \* search coroutines in flight at once
MaxCalls == 5           \* calls (and resumptions) made in one run
QueryCalls == 2         \* calls left to a run that starts from a populated collection
MaxDup == 2             \* copies of one text in a small populated collection
MaxLimit == 2           \* largest page size passed to scroll
NumProcs == 2           \* concurrent runs of the collection script
ToolCalls == 3          \* tool calls answered in one run of the server
MaxKey == 2             \* distinct source keys in a CSV export
MaxRows == 2            \* records in a CSV export
PopulateCalls == 3      \* populate calls in one run
MaxTableRows == 1        \* rows of the table the collection script reads
IngestCalls == 7        \* steps of collection-script runs, one at a time
RaceCalls == 8          \* steps of two concurrent collection-script runs

\* ------------------------------------------------------------- universes
None == "None"
RIds == 1..NumRetrievers
TaskIds == 1..NumTasks
Names == {"c1"}
Models == {"m1"}
Dims == {2, 3}
DocPaths == {"pA"}
QueryPaths == {"pB"}
Paths == DocPaths \cup QueryPaths
Texts == {"t1"}
DummyText == "dummy_text"
Modes == {"dense", "hybrid"}
FsStates == {"ok", "unreadable", "readonly"}
ChunkLists == UNION {[1..n -> Texts] : n \in 0..MaxChunks}
PoolTexts == {"d", "x"}
AllTexts == Texts \cup PoolTexts
TextPairs == {p \in SUBSET AllTexts : Cardinality(p) = 2}
STypes == Modes \cup {"other"}
COLLECTIONS == Names
ServerRid == 1
DefaultK == 10
FetchK == 20
LruMaxsize == 128
RrfK == 2
CosScale == 10
CosVals == {-5, 9}
Bm25Vals == 0..1
Ties == {"asc", "desc"}
QKs == {0, 1, 2, FetchK + 1}
Limits == 1..MaxLimit

VARIABLES
    retrievers,   \* constructed Retrievers: rid -> the fields __init__ set
    collections,  \* the vector database: name -> existing collection
    nextId,       \* number of uuid4 values drawn so far
    inserted,     \* history: name -> chunks inserted since the collection's creation
    cache,        \* the byte stores: <<path, namespace, text>> -> stored vector
    env,          \* the two cache paths read from the environment at import
    geo,          \* the embedding geometry: similarities between texts
    handles,      \* lru_cache of the two vector-store getters: key -> handle
    mmr,          \* lru_cache of _get_retriever: key -> wrapped handle
    tasks,        \* TaskIds -> the coroutine suspended at its await, or idle
    lru,          \* the getters' lru_cache bookkeeping: recency order, builds
    runs,         \* processes running create_collection_from_table
    sqldb,        \* the relational database: backend and tables' rows
    csv,          \* the keys of the rows of every CSV export
    server,       \* the tool server's process: its Retriever, sessions opened
    calls,        \* number of steps taken so far
    seen,         \* history: <<rid, store, text>> -> vector first returned
    last          \* history: what the most recent call did

vars == <<retrievers, collections, nextId, inserted, cache, env, geo,
          handles, mmr, tasks, lru, runs, sqldb, csv, server, calls, seen,
          last>>

\* ------------------------------------------------------- pure operators
\* The underlying dense provider: a deterministic vector of the configured
\* length for each text.
Provider(rv, text) ==
    [model |-> rv.model, len |-> rv.dimensions[1], text |-> text]

\* CacheBackedEmbeddings key: the namespace is the model identifier alone.
CacheKey(store, rv, text) == <<store, rv.model, text>>

\* _get_dense_embeddings: which byte store serves a role ("doc" or "query").
\* No document path: the bare provider.  No query path: the query cache is
\* the document store (query_embedding_cache=True).
StoreOf(rv, role) ==
    IF rv.docPath = None THEN None
    ELSE IF role = "doc" THEN rv.docPath
    ELSE IF rv.queryPath = None THEN rv.docPath
    ELSE rv.queryPath

\* An embed call that did nothing.
NoEmbed == [raised |-> None, vec |-> <<>>, prov |-> {}, cache |-> cache]

\* Mutant: the wrapper never writes what the provider computed.
EmbedNoWrite(rv, role, texts, cch, ss) ==
    LET st == StoreOf(rv, role) IN
    IF st = None \/ texts = {} THEN
        [raised |-> None,
         vec |-> [t \in texts |-> Provider(rv, t)],
         prov |-> texts, cache |-> cch]
    ELSE IF ss = "unreadable" THEN
        [raised |-> "StoreError", vec |-> <<>>, prov |-> {}, cache |-> cch]
    ELSE
        LET missing == {t \in texts : CacheKey(st, rv, t) \notin DOMAIN cch}
        IN [raised |-> None,
            vec |-> [t \in texts |->
                       IF t \in missing THEN Provider(rv, t)
                       ELSE cch[CacheKey(st, rv, t)]],
            prov |-> missing, cache |-> cch]

\* One embed_documents / embed_query call for a set of texts, against cache
\* contents cch, while the cache directories' file system is in state ss
\* ("ok", "unreadable" or "readonly") or the provider's service is "down".
\* All keys are read first, the missing ones computed by the provider in one
\* call, which raises when the service is down, then written.
Embed(rv, role, texts, cch, ss) ==
    LET st == StoreOf(rv, role) IN
    IF st = None \/ texts = {} THEN
        IF texts # {} /\ ss = "down" THEN
            [raised |-> "ProviderError", vec |-> <<>>, prov |-> texts,
             cache |-> cch]
        ELSE
            [raised |-> None,
             vec |-> [t \in texts |-> Provider(rv, t)],
             prov |-> texts, cache |-> cch]
    ELSE IF ss = "unreadable" THEN
        [raised |-> "StoreError", vec |-> <<>>, prov |-> {}, cache |-> cch]
    ELSE
        LET missing == {t \in texts : CacheKey(st, rv, t) \notin DOMAIN cch}
            written == [k \in {CacheKey(st, rv, t) : t \in missing}
                          |-> Provider(rv, k[3])]
        IN IF missing # {} /\ ss = "down" THEN
               [raised |-> "ProviderError", vec |-> <<>>,
                prov |-> missing, cache |-> cch]
           ELSE IF missing # {} /\ ss = "readonly" THEN
               [raised |-> "StoreError", vec |-> <<>>,
                prov |-> missing, cache |-> cch]
           ELSE
               [raised |-> None,
                vec |-> [t \in texts |->
                           IF t \in missing THEN Provider(rv, t)
                           ELSE cch[CacheKey(st, rv, t)]],
                prov |-> missing, cache |-> written @@ cch]

\* Mutant: __init__ without its two assertions.
CtorStepsNoAssert(dim, model) ==
    <<"dense_embeddings", "sparse_embeddings", "qdrant_client",
      "search_type_map", "-", "-">>

\* Retriever.__init__: the statements executed, in order, for a provider
\* with the given dimensions and model attributes.
\* dimensions is <<>> for an attribute that is None, <<d>> for the integer d.
CtorSteps(dim, model) ==
    IF dim = <<>> THEN <<"assert_dimensions">>
    ELSE IF model = None THEN <<"assert_dimensions", "assert_model">>
    ELSE <<"assert_dimensions", "assert_model", "dense_embeddings",
           "sparse_embeddings", "qdrant_client", "search_type_map">>

CtorDone(steps) == Len(steps) = 6

\* The schema create_collection provisions.
NewCollection(rv) ==
    [size |-> rv.dimensions[1], distance |-> "COSINE",
     sparseOnDisk |-> FALSE, docs |-> <<>>]

Exists(name) == name \in DOMAIN collections

Remove(f, x) == [y \in DOMAIN f \ {x} |-> f[y]]

Range(f) == {f[x] : x \in DOMAIN f}

\* Mutant: ids numbered from 1 in every call.
Uuid4PerCall(k, i) == i

\* str(uuid4()): the i-th value drawn after k earlier draws; every draw is a
\* value never drawn before.
Uuid4(k, i) == k + i


\* ------------------------------------------------------ vector stores
\* QdrantVectorStore(client, collection_name, embedding, ...): with the
\* default validate_collection_config the constructor reads the collection
\* (an unknown name raises), embeds one dummy text through the Retriever's
\* dense embeddings and compares its length with the collection's size.
\* The Retriever passes no dimension of its own (retriever.py:110-116).
BuildStore(rv, name, fs) ==
    IF ~Exists(name) THEN
        [raised |-> "NotFound", e |-> NoEmbed]
    ELSE
        LET e == Embed(rv, "doc", {DummyText}, cache, fs) IN
        IF e.raised # None THEN [raised |-> e.raised, e |-> e]
        ELSE IF e.vec[DummyText].len # collections[name].size THEN
            [raised |-> "DimMismatch", e |-> e]
        ELSE IF collections[name].distance # "COSINE" THEN
            [raised |-> "DistanceMismatch", e |-> e]
        ELSE [raised |-> None, e |-> e]

\* functools.lru_cache bookkeeping of the two getters: per getter, the keys
\* (self, collection_name) it holds, least recently used first, and, as
\* history, how many handles were ever built for a key.
NoLru == [order |-> [m \in Modes |-> <<>>], gens |-> <<>>]

Touch(order, k) == SelectSeq(order, LAMBDA x : x # k) \o <<k>>

GensOf(key) == IF key \in DOMAIN lru.gens THEN lru.gens[key] ELSE 0

\* Mutant: the getters without @lru_cache(): every access constructs.
GetStoreUncached(mode, r, name, fs) ==
    LET key == <<mode, r, name>>
        gen == GensOf(key) + 1
        b == BuildStore(retrievers[r], name, fs)
    IN IF b.raised # None THEN
           [raised |-> b.raised, handle |-> 0, built |-> FALSE,
            e |-> b.e, handles |-> handles, lru |-> lru]
       ELSE
           [raised |-> None, handle |-> gen, built |-> TRUE,
            e |-> b.e, handles |-> (key :> gen) @@ handles,
            lru |-> [lru EXCEPT !.gens = (key :> gen) @@ @]]

\* _get_dense_vector_store / _get_hybrid_vector_store under @lru_cache():
\* a cached handle is returned as it is and becomes the most recently used;
\* otherwise one is constructed and, unless the constructor raised, cached
\* under (self, collection_name), the least recently used entry of a full
\* cache making room for it.  A handle is named by its generation: the n-th
\* object built for its key.
GetStore(mode, r, name, fs) ==
    LET key == <<mode, r, name>>
        k == <<r, name>>
        order == lru.order[mode]
    IN
    IF key \in DOMAIN handles THEN
        [raised |-> None, handle |-> handles[key], built |-> FALSE,
         e |-> NoEmbed, handles |-> handles,
         lru |-> [lru EXCEPT !.order[mode] = Touch(order, k)]]
    ELSE
        LET b == BuildStore(retrievers[r], name, fs)
            gen == GensOf(key) + 1
            full == Len(order) >= LruMaxsize
            kept == IF full THEN Tail(order) ELSE order
            held == IF full
                    THEN Remove(handles, <<mode, Head(order)[1],
                                           Head(order)[2]>>)
                    ELSE handles
        IN
        IF b.raised # None THEN
            [raised |-> b.raised, handle |-> 0, built |-> FALSE,
             e |-> b.e, handles |-> handles, lru |-> lru]
        ELSE
            [raised |-> None, handle |-> gen, built |-> TRUE,
             e |-> b.e, handles |-> (key :> gen) @@ held,
             lru |-> [order |-> [lru.order EXCEPT ![mode] =
                                    Append(kept, k)],
                      gens |-> (key :> gen) @@ lru.gens]]

\* The vector database's own check of point or query vectors against the
\* collection it names.
DbCheck(name, vecs) ==
    IF ~Exists(name) THEN "NotFound"
    ELSE IF \E v \in vecs : v.len # collections[name].size THEN "DimMismatch"
    ELSE None

\* ------------------------------------------------------------ ranking
\* Similarities are cosines in tenths, relevances and fused scores are
\* fractions <<numerator, denominator>> with a positive denominator.
\* A geometry is realizable when the Gram matrix of every three texts is
\* positive semidefinite.
Realizable(g) ==
    \A a, b, c \in AllTexts :
        (a # b /\ b # c /\ a # c) =>
            LET ab == g.cos[{a, b}]
                ac == g.cos[{a, c}]
                bc == g.cos[{b, c}]
            IN 1000 + 2 * ab * ac * bc
                 - 10 * (ab * ab + ac * ac + bc * bc) >= 0

TrivialGeo ==
    [cos |-> [p \in TextPairs |-> 5], bm25 |-> [t \in PoolTexts |-> 1]]

Geos ==
    {g \in [cos : [TextPairs -> CosVals], bm25 : [PoolTexts -> Bm25Vals]] :
        Realizable(g)} \cup {TrivialGeo}

\* Distance.COSINE between the dense vectors of two texts.
Cos(a, b) == IF a = b THEN CosScale ELSE geo.cos[{a, b}]

\* Qdrant/bm25 relevance of a document text to a query: 0 when they share
\* no term.
Bm25(q, t) ==
    IF t \in PoolTexts THEN geo.bm25[t] ELSE IF q = t THEN 2 ELSE 0

Beats(a, b, score, tie) ==
    \/ score[a][1] * score[b][2] > score[b][1] * score[a][2]
    \/ /\ score[a][1] * score[b][2] = score[b][1] * score[a][2]
       /\ IF tie = "asc" THEN a < b ELSE a > b

\* The ids of S by decreasing score; the database's order among equal
\* scores is tie.
InOrder(S, ahead) ==
    [i \in 1..Cardinality(S) |-> CHOOSE a \in S : ahead[a] = i - 1]

Ranked(S, score, tie) ==
    InOrder(S, [a \in S |->
                  Cardinality({b \in S : Beats(b, a, score, tie)})])

Take(s, n) == SubSeq(s, 1, IF n < Len(s) THEN n ELSE Len(s))

Hits(ids, score) ==
    [i \in 1..Len(ids) |-> [id |-> ids[i], score |-> score[ids[i]]]]

DenseScore(docs, q) ==
    [id \in DOMAIN docs |-> <<Cos(q, docs[id].vec.text), CosScale>>]

SparseScore(docs, q) ==
    [id \in {i \in DOMAIN docs : Bm25(q, docs[i].text) > 0}
        |-> <<Bm25(q, docs[id].text), 1>>]

\* query_points on the dense field, limit n.
DenseQuery(docs, q, n, tie) ==
    LET sc == DenseScore(docs, q) IN Take(Ranked(DOMAIN docs, sc, tie), n)

\* query_points on the sparse field, limit n: only documents sharing a
\* term with the query.
SparseQuery(docs, q, n, tie) ==
    LET sc == SparseScore(docs, q) IN Take(Ranked(DOMAIN sc, sc, tie), n)

PosIn(s, x) == CHOOSE i \in 1..Len(s) : s[i] = x

\* Reciprocal-rank term of one sub-ranking: zero for an absent document.
RrfTerm(s, id) ==
    IF id \in Range(s) THEN <<1, PosIn(s, id) - 1 + RrfK>> ELSE <<0, 1>>

AddFrac(a, b) == <<a[1] * b[2] + b[1] * a[2], a[2] * b[2]>>

RrfScore(dense, sparse) ==
    [id \in Range(dense) \cup Range(sparse) |->
        AddFrac(RrfTerm(dense, id), RrfTerm(sparse, id))]

\* Mutant: fusion keeping only the documents present in both sub-rankings.
FuseBoth(dense, sparse, n, tie) ==
    LET sc == RrfScore(dense, sparse)
        both == Range(dense) \cap Range(sparse)
    IN Hits(Take(Ranked(both, sc, tie), n), sc)

\* FusionQuery(fusion=RRF) over the two prefetches, limit n.
Fuse(dense, sparse, n, tie) ==
    LET sc == RrfScore(dense, sparse)
    IN Hits(Take(Ranked(DOMAIN sc, sc, tie), n), sc)

\* similarity_search_with_score of a handle in the given retrieval mode.
SimilaritySearch(mode, docs, q, k, tie) ==
    LET dense == DenseQuery(docs, q, k, tie)
        sc == DenseScore(docs, q)
        sparse == SparseQuery(docs, q, k, tie)
    IN IF mode = "dense" THEN Hits(dense, sc)
       ELSE Fuse(dense, sparse, k, tie)

Max(S) == CHOOSE x \in S : \A y \in S : y <= x

\* The candidate MMR adds next: the first index, in pool order, maximising
\* lambda * similarity to the query - (1 - lambda) * greatest similarity to
\* a selected candidate, with lambda = 1/2 (compared here doubled).
MmrBest(txt, q, sel) ==
    LET rest == (1..Len(txt)) \ Range(sel)
        sc == [i \in rest |->
                 Cos(q, txt[i])
                   - Max({Cos(txt[i], txt[sel[j]]) : j \in 1..Len(sel)})]
    IN CHOOSE i \in rest :
           \A j \in rest : sc[j] < sc[i] \/ (sc[j] = sc[i] /\ i <= j)

RECURSIVE MmrSelect(_, _, _, _)
MmrSelect(txt, q, k, sel) ==
    IF Len(sel) >= k \/ Len(sel) >= Len(txt) THEN sel
    ELSE MmrSelect(txt, q, k, Append(sel, MmrBest(txt, q, sel)))

\* maximal_marginal_relevance over the candidates' vectors: the indices
\* selected, the most similar candidate first.
Mmr(txt, q, k) ==
    IF k <= 0 \/ Len(txt) = 0 THEN <<>>
    ELSE LET n == Len(txt)
             first == CHOOSE i \in 1..n :
                         \A j \in 1..n :
                             \/ Cos(q, txt[j]) < Cos(q, txt[i])
                             \/ (Cos(q, txt[j]) = Cos(q, txt[i]) /\ i <= j)
         IN MmrSelect(txt, q, k, <<first>>)

\* max_marginal_relevance_search as the retriever of as_retriever(
\* search_type="mmr", search_kwargs={"k": k}) calls it: fetch_k candidates
\* from the dense field, whatever the handle's retrieval mode, then MMR.
MmrSearch(docs, q, k, tie) ==
    LET pool == DenseQuery(docs, q, FetchK, tie)
        txt == [i \in 1..Len(pool) |-> docs[pool[i]].vec.text]
        sel == Mmr(txt, q, k)
    IN [fetched |-> Len(pool),
        hits |-> [i \in 1..Len(sel) |-> [id |-> pool[sel[i]], score |-> <<>>]]]

\* Mutant: retrieve copying a score into its items.
RetrieveItemsScored(docs, hits) ==
    [raised |-> None,
     items |-> [i \in 1..Len(hits) |->
                  [id |-> hits[i].id, text |-> docs[hits[i].id].text,
                   score |-> <<0, 1>>]]]

\* retrieve's result list: RetrieverItem(text, metadata), score left None.
RetrieveItems(docs, hits) ==
    [raised |-> None,
     items |-> [i \in 1..Len(hits) |->
                  [id |-> hits[i].id, text |-> docs[hits[i].id].text,
                   score |-> <<>>]]]

\* _parse_results: RetrieverItem(text, metadata, score) per hit; score is a
\* NonNegativeFloat, so a negative score fails the model's validation.
ParseResults(docs, hits) ==
    IF \E i \in 1..Len(hits) : hits[i].score[1] < 0
    THEN [raised |-> "ValidationError", items |-> <<>>]
    ELSE [raised |-> None,
          items |-> [i \in 1..Len(hits) |->
                       [id |-> hits[i].id, text |-> docs[hits[i].id].text,
                        score |-> hits[i].score]]]

\* ----------------------------------------------------------- the record
\* of the most recent call
NoCall ==
    [op |-> "none", rid |-> 0, name |-> None, raised |-> None,
     existed |-> FALSE, dbCreate |-> FALSE, built |-> FALSE,
     addCalls |-> 0, n |-> 0, ids |-> {}, prov |-> {}, vecs |-> <<>>,
     steps |-> <<>>, provider |-> <<>>, suspended |-> FALSE,
     k |-> 0, via |-> None, stype |-> None, mode |-> None, query |-> None,
     tie |-> None, items |-> <<>>, fetched |-> 0, limit |-> 0,
     page |-> <<>>, next |-> <<>>, cancelled |-> FALSE,
     stmts |-> <<>>, rows |-> 0, table |-> None, results |-> <<>>,
     force |-> FALSE, proc |-> 0]

\* What one embed call adds to the record: the <<store, text>> pairs the
\* provider computed and the vectors the call returned.
ProvOf(rv, role, e) == {<<StoreOf(rv, role), t>> : t \in e.prov}

VecsOf(rv, role, e) ==
    [k \in {<<StoreOf(rv, role), t>> : t \in DOMAIN e.vec} |-> e.vec[k[2]]]

SeenAfter(r, rv, role, e) ==
    seen @@ [k \in {<<r, StoreOf(rv, role), t>> : t \in DOMAIN e.vec}
               |-> e.vec[k[3]]]

\* -------------------------------------------- the relational side
\* The tables the tool server and the population script know.
TABLES_MAP ==
    {"asuntos_diputados", "asuntos_senadores", "bloques_diputados",
     "bloques_senadores", "legisladores_diputados",
     "legisladores_senadores", "votaciones_diputados",
     "votaciones_senadores"}

\* DATABASE_URL selects the engine's backend.
Backends == {"sqlite", "postgres"}

\* No script run in progress, an empty database, a server that has opened
\* no session and has not yet built its Retriever.
ProcIds == 1..NumProcs

AsuntosTables == {"asuntos_diputados", "asuntos_senadores"}

VotacionesTables == {"votaciones_diputados", "votaciones_senadores"}

\* The values the command line accepts for --table.
TABLE_CHOICES == TABLES_MAP \cup {"all"}

\* The values populate_from_csv can be handed.
TableSelections ==
    TABLE_CHOICES \cup {"asuntos", "bloques", "legisladores", "votaciones"}

\* populate_all's order.
PopulateAllOrder ==
    <<"asuntos_diputados", "asuntos_senadores", "bloques_diputados",
      "bloques_senadores", "legisladores_diputados",
      "legisladores_senadores", "votaciones_diputados",
      "votaciones_senadores">>

Keys == 1..MaxKey

\* The records of a CSV export, by key; every export holds the same.
CsvFiles == UNION {[1..n -> Keys] : n \in 0..MaxRows}

SqlTarget == "asuntos_diputados"

\* Query texts: empty, one statement, a SELECT followed by others.
Queries ==
    {<<>>, <<"select">>, <<"delete">>, <<"select", "select">>,
     <<"select", "delete">>, <<"select", "delete", "commit">>}

DefaultLimit == 100

LimitArgs == {0, DefaultLimit}

ToolNames == COLLECTIONS \cup {"zz"}

TableArgs == TABLES_MAP \cup {"zz"}

IdleRun ==
    [pc |-> "idle", force |-> FALSE, docs |-> <<>>, steps |-> <<>>,
     before |-> {}, raised |-> None]

NoRuns == [p \in ProcIds |-> IdleRun]

\* The table the script reads and the collection it fills from it.
TableRows == [i \in 1..MaxTableRows |-> "t1"]

ScriptCollection == "c1"

NoSql == [backend |-> "sqlite", tables |-> [t \in TABLES_MAP |-> <<>>]]

NoServer == [retriever |-> FALSE, sessions |-> 0]

\* ---------------------------------------------------------------- Init
Init ==
    /\ retrievers = <<>>
    /\ collections = <<>>
    /\ nextId = 0
    /\ inserted = [n \in Names |-> 0]
    /\ cache = <<>>
    /\ env \in [docPath : DocPaths \cup {None},
                 queryPath : QueryPaths \cup {None}]
    /\ geo = TrivialGeo
    /\ handles = <<>>
    /\ mmr = <<>>
    /\ tasks = [t \in TaskIds |-> [pc |-> "idle"]]
    /\ lru = NoLru
    /\ runs = NoRuns
    /\ sqldb = NoSql
    /\ csv = <<>>
    /\ server = NoServer
    /\ calls = 0
    /\ seen = <<>>
    /\ last = NoCall

\* ------------------------------------------------------------- actions
\* A new coroutine takes the first free slot.
FreeSlot(t) ==
    /\ tasks[t].pc = "idle"
    /\ \A u \in TaskIds : u < t => tasks[u].pc # "idle"

\* One more step within the run's budget.
Tick == calls < MaxCalls /\ calls' = calls + 1

\* Retriever(dense_embeddings): as at both call sites, the two cache paths
\* take their defaults, the environment's values.
Construct(r, model, dim) ==
    /\ Tick
    /\ r = Cardinality(DOMAIN retrievers) + 1
    /\ LET steps == CtorSteps(dim, model) IN
       /\ retrievers' =
            IF CtorDone(steps)
            THEN (r :> [model |-> model, dimensions |-> dim,
                        docPath |-> env.docPath,
                        queryPath |-> env.queryPath])
                 @@ retrievers
            ELSE retrievers
       /\ last' = [NoCall EXCEPT !.op = "init", !.rid = r, !.steps = steps,
                     !.provider = <<model, dim>>,
                     !.raised = IF CtorDone(steps) THEN None
                                ELSE "AssertionError"]
    /\ UNCHANGED <<collections, nextId, inserted, cache, env, geo, runs, sqldb, csv, server, handles, lru,
                   mmr, tasks, seen>>

\* Mutant: create_collection without the collection_exists guard.
CreateCollectionNoCheck(r, name) ==
    /\ Tick
    /\ r \in DOMAIN retrievers
    /\ collections' = (name :> NewCollection(retrievers[r])) @@ collections
    /\ inserted' = [inserted EXCEPT ![name] = 0]
    /\ last' = [NoCall EXCEPT !.op = "create", !.rid = r, !.name = name,
                  !.existed = Exists(name), !.dbCreate = TRUE]
    /\ UNCHANGED <<retrievers, nextId, cache, env, geo, runs, sqldb, csv, server, handles, lru, mmr,
                   tasks, seen>>

\* Mutant: create_collection re-creating a collection whose size is not the
\* caller's dimension.
CreateCollectionRecreate(r, name) ==
    /\ Tick
    /\ r \in DOMAIN retrievers
    /\ IF Exists(name)
          /\ collections[name].size = retrievers[r].dimensions[1]
       THEN /\ UNCHANGED <<collections, inserted>>
            /\ last' = [NoCall EXCEPT !.op = "create", !.rid = r,
                          !.name = name, !.existed = TRUE]
       ELSE /\ collections' =
                 (name :> NewCollection(retrievers[r])) @@ collections
            /\ inserted' = [inserted EXCEPT ![name] = 0]
            /\ last' = [NoCall EXCEPT !.op = "create", !.rid = r,
                          !.name = name, !.existed = Exists(name),
                          !.dbCreate = TRUE]
    /\ UNCHANGED <<retrievers, nextId, cache, env, geo, runs, sqldb, csv, server, handles, lru, mmr,
                   tasks, seen>>

\* Retriever.create_collection
CreateCollection(r, name) ==
    /\ Tick
    /\ r \in DOMAIN retrievers
    /\ IF Exists(name)
       THEN /\ UNCHANGED <<collections, inserted>>
            /\ last' = [NoCall EXCEPT !.op = "create", !.rid = r,
                          !.name = name, !.existed = TRUE]
       ELSE /\ collections' =
                 (name :> NewCollection(retrievers[r])) @@ collections
            /\ inserted' = [inserted EXCEPT ![name] = 0]
            /\ last' = [NoCall EXCEPT !.op = "create", !.rid = r,
                          !.name = name, !.dbCreate = TRUE]
    /\ UNCHANGED <<retrievers, nextId, cache, env, geo, runs, sqldb, csv, server, handles, lru, mmr,
                   tasks, seen>>

\* qadrant_client.delete_collection, as create_collection_from_table calls
\* it when forcing re-creation.
DeleteCollection(r, name) ==
    /\ Tick
    /\ r \in DOMAIN retrievers
    /\ Exists(name)
    /\ collections' = Remove(collections, name)
    /\ last' = [NoCall EXCEPT !.op = "delete", !.rid = r, !.name = name,
                  !.existed = TRUE]
    /\ UNCHANGED <<retrievers, nextId, inserted, cache, env, geo, runs, sqldb, csv, server, handles, lru,
                   mmr, tasks, seen>>

\* Mutant: insert_text_chunks creating a missing collection on the fly.
InsertMissingCreates(r, name, chunks) ==
    /\ collections' = (name :> NewCollection(retrievers[r])) @@ collections
    /\ last' = [NoCall EXCEPT !.op = "insert", !.rid = r, !.name = name,
                  !.n = Len(chunks), !.dbCreate = TRUE]
    /\ UNCHANGED <<nextId, inserted, cache, handles, lru, seen>>

\* insert_text_chunks on a name the database does not hold: a warning, and
\* nothing else.
InsertMissing(r, name, chunks) ==
    /\ last' = [NoCall EXCEPT !.op = "insert", !.rid = r, !.name = name,
                  !.n = Len(chunks)]
    /\ UNCHANGED <<collections, nextId, inserted, cache, handles, lru, seen>>

\* insert_text_chunks on an existing collection: the hybrid handle, one
\* uuid4 per chunk, one add_documents call (which embeds the texts and
\* upserts the points).
InsertExisting(r, name, chunks, fs) ==
    LET rv == retrievers[r]
        g == GetStore("hybrid", r, name, fs)
        n == Len(chunks)
        uuids == [i \in 1..n |-> Uuid4(nextId, i)]
        texts == Range(chunks)
        e == Embed(rv, "doc", texts, g.e.cache, fs)
        db == IF e.raised # None THEN e.raised
              ELSE DbCheck(name, Range(e.vec))
        points == [id \in Range(uuids) |->
                     LET i == CHOOSE j \in 1..n : uuids[j] = id
                     IN [text |-> chunks[i], vec |-> e.vec[chunks[i]]]]
        base == [NoCall EXCEPT !.op = "insert", !.rid = r, !.name = name,
                   !.existed = TRUE, !.n = n, !.built = g.built]
    IN IF g.raised # None
       THEN /\ last' = [base EXCEPT !.raised = g.raised,
                          !.prov = ProvOf(rv, "doc", g.e),
                          !.vecs = VecsOf(rv, "doc", g.e)]
            /\ cache' = g.e.cache
            /\ seen' = SeenAfter(r, rv, "doc", g.e)
            /\ UNCHANGED <<collections, nextId, inserted, handles, lru>>
       ELSE /\ nextId + n <= MaxIds
            /\ nextId' = nextId + n
            /\ handles' = g.handles
            /\ lru' = g.lru
            /\ cache' = e.cache
            /\ seen' = SeenAfter(r, rv, "doc", e)
                         @@ SeenAfter(r, rv, "doc", g.e)
            /\ collections' =
                 IF db # None THEN collections
                 ELSE [collections EXCEPT ![name].docs = points @@ @]
            /\ inserted' =
                 IF db # None THEN inserted
                 ELSE [inserted EXCEPT ![name] = @ + n]
            /\ last' = [base EXCEPT !.raised = db, !.addCalls = 1,
                          !.ids = Range(uuids),
                          !.prov = ProvOf(rv, "doc", g.e)
                                     \cup ProvOf(rv, "doc", e),
                          !.vecs = VecsOf(rv, "doc", e)
                                     @@ VecsOf(rv, "doc", g.e)]

\* Retriever.insert_text_chunks(collection_name, text_chunks); chunks is the
\* sequence of the chunks' texts.  InsertBody leaves the calling script's
\* position to the caller.
InsertBody(r, name, chunks, fs) ==
    /\ Tick
    /\ r \in DOMAIN retrievers
    /\ IF ~Exists(name)
       THEN InsertMissing(r, name, chunks)
       ELSE InsertExisting(r, name, chunks, fs)
    /\ UNCHANGED <<retrievers, env, geo, sqldb, csv, server, mmr, tasks>>

InsertTextChunks(r, name, chunks, fs) ==
    /\ InsertBody(r, name, chunks, fs)
    /\ UNCHANGED runs

\* dense_search / hybrid_search up to the await: the handle is fetched or
\* built synchronously, then the coroutine suspends on
\* asimilarity_search_with_score.  via is the search_type the
\* search_collection tool was given, None for a direct call.
SearchBody(t, op, r, name, query, k, fs, via) ==
    /\ Tick
    /\ FreeSlot(t)
    /\ r \in DOMAIN retrievers
    /\ LET rv == retrievers[r]
           mode == IF op = "dense_search" THEN "dense" ELSE "hybrid"
           g == GetStore(mode, r, name, fs)
           base == [NoCall EXCEPT !.op = op, !.rid = r, !.name = name,
                      !.existed = Exists(name), !.built = g.built,
                      !.k = k, !.via = via, !.mode = mode,
                      !.prov = ProvOf(rv, "doc", g.e),
                      !.vecs = VecsOf(rv, "doc", g.e)]
       IN /\ cache' = g.e.cache
          /\ seen' = SeenAfter(r, rv, "doc", g.e)
          /\ handles' = g.handles
          /\ lru' = g.lru
          /\ IF g.raised # None
             THEN /\ tasks' = tasks
                  /\ last' = [base EXCEPT !.raised = g.raised]
             ELSE /\ tasks' = [tasks EXCEPT ![t] =
                        [pc |-> "await", op |-> op, rid |-> r,
                         name |-> name, mode |-> mode, query |-> query,
                         k |-> k, handle |-> g.handle]]
                  /\ last' = [base EXCEPT !.suspended = TRUE]
    /\ UNCHANGED <<retrievers, collections, nextId, inserted, env, geo,
                   runs, sqldb, csv, mmr>>

\* Retriever.dense_search / Retriever.hybrid_search(collection_name, query, k)
StartSearch(t, op, r, name, query, k, fs) ==
    /\ SearchBody(t, op, r, name, query, k, fs, None)
    /\ UNCHANGED server

\* The search_collection tool.  validated tells whether the call came
\* through the tool interface, which checks the arguments against the
\* signature's Literal["hybrid", "dense"], or reached the function itself.
\* After the COLLECTIONS check get_retriever() builds the server's
\* Retriever on first use; the body sends every search_type other than
\* "hybrid" to dense_search.
ToolError(name, k, stype, raised) ==
    /\ Tick
    /\ last' = [NoCall EXCEPT !.op = "search_collection", !.name = name,
                  !.via = stype, !.k = k, !.raised = raised]
    /\ UNCHANGED <<retrievers, collections, nextId, inserted, cache, env,
                   geo, runs, sqldb, csv, server, handles, lru, mmr, tasks,
                   seen>>

\* Mutant: search_collection without its COLLECTIONS check.
SearchCollectionNoCheck(t, name, k, stype, query, validated, fs) ==
    IF validated /\ stype \notin Modes THEN
        ToolError(name, k, stype, "ValidationError")
    ELSE
        /\ SearchBody(t, IF stype = "hybrid" THEN "hybrid_search"
                         ELSE "dense_search",
                      ServerRid, name, query, k, fs, stype)
        /\ server' = [server EXCEPT !.retriever = TRUE]

SearchCollection(t, name, k, stype, query, validated, fs) ==
    IF validated /\ stype \notin Modes THEN
        ToolError(name, k, stype, "ValidationError")
    ELSE IF name \notin COLLECTIONS THEN
        ToolError(name, k, stype, "ValueError")
    ELSE
        /\ SearchBody(t, IF stype = "hybrid" THEN "hybrid_search"
                         ELSE "dense_search",
                      ServerRid, name, query, k, fs, stype)
        /\ server' = [server EXCEPT !.retriever = TRUE]

\* retrieve up to the await: _get_retriever under @lru_cache() looks the
\* search type up in search_type_map and wraps that handle as an MMR
\* retriever.
StartRetrieve(t, r, name, stype, query, k, fs) ==
    /\ Tick
    /\ FreeSlot(t)
    /\ r \in DOMAIN retrievers
    /\ LET rv == retrievers[r]
           key == <<r, name, stype, k>>
           g == GetStore(stype, r, name, fs)
           base == [NoCall EXCEPT !.op = "retrieve", !.rid = r,
                      !.name = name, !.existed = Exists(name),
                      !.k = k, !.stype = stype]
       IN IF stype \notin Modes
          THEN /\ last' = [base EXCEPT !.raised = "KeyError"]
               /\ UNCHANGED <<cache, handles, lru, mmr, seen, tasks>>
          ELSE IF key \in DOMAIN mmr
          THEN /\ tasks' = [tasks EXCEPT ![t] =
                     [pc |-> "await", op |-> "retrieve", rid |-> r,
                      name |-> name, mode |-> stype, query |-> query,
                      k |-> k, handle |-> mmr[key]]]
               /\ last' = [base EXCEPT !.suspended = TRUE, !.mode = stype]
               /\ UNCHANGED <<cache, handles, lru, mmr, seen>>
          ELSE /\ cache' = g.e.cache
               /\ seen' = SeenAfter(r, rv, "doc", g.e)
               /\ handles' = g.handles
               /\ lru' = g.lru
               /\ IF g.raised # None
                  THEN /\ last' = [base EXCEPT !.raised = g.raised,
                                     !.mode = stype,
                                     !.prov = ProvOf(rv, "doc", g.e),
                                     !.vecs = VecsOf(rv, "doc", g.e)]
                       /\ UNCHANGED <<tasks, mmr>>
                  ELSE /\ mmr' = (key :> g.handle) @@ mmr
                       /\ tasks' = [tasks EXCEPT ![t] =
                             [pc |-> "await", op |-> "retrieve", rid |-> r,
                              name |-> name, mode |-> stype,
                              query |-> query, k |-> k,
                              handle |-> g.handle]]
                       /\ last' = [base EXCEPT !.suspended = TRUE,
                                     !.built = g.built, !.mode = stype,
                                     !.prov = ProvOf(rv, "doc", g.e),
                                     !.vecs = VecsOf(rv, "doc", g.e)]
    /\ UNCHANGED <<retrievers, collections, nextId, inserted, env, geo, runs, sqldb, csv, server>>

\* What the awaited vector-store call returns for the suspended call c
\* against the documents docs: the database rejects a limit below 1; the
\* searches parse scored hits, retrieve parses MMR's selection.
Answer(c, docs, tie) ==
    IF c.op = "retrieve" THEN
        LET m == MmrSearch(docs, c.query, c.k, tie)
            res == RetrieveItems(docs, m.hits)
        IN [raised |-> res.raised, items |-> res.items,
            fetched |-> m.fetched]
    ELSE IF c.k < 1 THEN
        [raised |-> "BadRequest", items |-> <<>>, fetched |-> 0]
    ELSE
        LET hits == SimilaritySearch(c.mode, docs, c.query, c.k, tie)
            res == ParseResults(docs, hits)
        IN [raised |-> res.raised, items |-> res.items,
            fetched |-> Len(hits)]

\* The awaited vector-store call completes in its worker thread: the query
\* is embedded through the Retriever's dense embeddings, the database is
\* queried, and the hits are parsed into RetrieverItems.  The thread of a
\* cancelled call runs to the same end, its result discarded.
FinishSearch(t, fs, tie) ==
    /\ Tick
    /\ tasks[t].pc \in {"await", "orphan"}
    /\ LET c == tasks[t]
           rv == retrievers[c.rid]
           e == Embed(rv, "query", {c.query}, cache, fs)
           db == IF e.raised # None THEN e.raised
                 ELSE DbCheck(c.name, Range(e.vec))
           ans == IF db # None
                  THEN [raised |-> db, items |-> <<>>, fetched |-> 0]
                  ELSE Answer(c, collections[c.name].docs, tie)
       IN /\ cache' = e.cache
          /\ seen' = SeenAfter(c.rid, rv, "query", e)
          /\ last' = [NoCall EXCEPT !.op = c.op, !.rid = c.rid,
                        !.name = c.name, !.existed = Exists(c.name),
                        !.k = c.k, !.mode = c.mode, !.query = c.query,
                        !.tie = tie, !.raised = ans.raised,
                        !.cancelled = (c.pc = "orphan"),
                        !.items = IF c.pc = "orphan" THEN <<>>
                                  ELSE ans.items,
                        !.fetched = ans.fetched,
                        !.prov = ProvOf(rv, "query", e),
                        !.vecs = VecsOf(rv, "query", e)]
    /\ tasks' = [tasks EXCEPT ![t] = [pc |-> "idle"]]
    /\ UNCHANGED <<retrievers, collections, nextId, inserted, env, geo, runs, sqldb, csv, server,
                   handles, lru, mmr>>

\* Mutant: a cancellation handler that empties the collection searched.
CancelCleansUp(t) ==
    /\ Tick
    /\ tasks[t].pc = "await"
    /\ tasks' = [tasks EXCEPT ![t].pc = "orphan"]
    /\ collections' =
         IF Exists(tasks[t].name)
         THEN [collections EXCEPT ![tasks[t].name].docs = <<>>]
         ELSE collections
    /\ last' = [NoCall EXCEPT !.op = tasks[t].op, !.rid = tasks[t].rid,
                  !.name = tasks[t].name, !.existed = Exists(tasks[t].name),
                  !.k = tasks[t].k, !.raised = "CancelledError",
                  !.cancelled = TRUE]
    /\ UNCHANGED <<retrievers, nextId, inserted, cache, env, geo, runs, sqldb, csv, server, handles, lru,
                   mmr, seen>>

\* The caller cancels a suspended search: CancelledError is raised at the
\* await; the worker thread the call was handed to is not interrupted.
Cancel(t) ==
    /\ Tick
    /\ tasks[t].pc = "await"
    /\ tasks' = [tasks EXCEPT ![t].pc = "orphan"]
    /\ last' = [NoCall EXCEPT !.op = tasks[t].op, !.rid = tasks[t].rid,
                  !.name = tasks[t].name, !.existed = Exists(tasks[t].name),
                  !.k = tasks[t].k, !.raised = "CancelledError",
                  !.cancelled = TRUE]
    /\ UNCHANGED <<retrievers, collections, nextId, inserted, cache, env,
                   geo, runs, sqldb, csv, server, handles, lru, mmr, seen>>

\* Retriever.scroll(collection_name, limit): the signature has no offset,
\* so the database always reads from the start of the collection, in id
\* order, and reports the id that follows the page.
Scroll(r, name, limit) ==
    /\ Tick
    /\ r \in DOMAIN retrievers
    /\ LET base == [NoCall EXCEPT !.op = "scroll", !.rid = r,
                      !.name = name, !.existed = Exists(name),
                      !.limit = limit]
       IN IF ~Exists(name)
          THEN last' = [base EXCEPT !.raised = "NotFound"]
          ELSE LET docs == collections[name].docs
                   ids == Ranked(DOMAIN docs,
                                 [i \in DOMAIN docs |-> <<0, 1>>], "asc")
               IN last' = [base EXCEPT
                             !.page = Take(ids, limit),
                             !.next = IF Len(ids) > limit
                                      THEN <<ids[limit + 1]>> ELSE <<>>]
    /\ UNCHANGED <<retrievers, collections, nextId, inserted, cache, env,
                   geo, runs, sqldb, csv, server, handles, lru, mmr, tasks, seen>>

\* ------------------------------------------------- the server's tools
\* table_schema: the table's metadata from the model class; no session.
TableSchema(name) ==
    /\ Tick
    /\ last' = [NoCall EXCEPT !.op = "table_schema", !.table = name,
                  !.raised = IF name \in TABLES_MAP THEN None
                             ELSE "ValueError"]
    /\ UNCHANGED <<retrievers, collections, nextId, inserted, cache, env,
                   geo, runs, sqldb, csv, server, handles, lru, mmr, tasks,
                   seen>>

\* table_preview: the first limit rows of a known table, read in a session.
TablePreview(name, limit) ==
    /\ Tick
    /\ IF name \notin TABLES_MAP
       THEN /\ last' = [NoCall EXCEPT !.op = "table_preview",
                          !.table = name, !.limit = limit,
                          !.raised = "ValueError"]
            /\ UNCHANGED server
       ELSE /\ server' = [server EXCEPT !.sessions = @ + 1]
            /\ last' = [NoCall EXCEPT !.op = "table_preview",
                          !.table = name, !.limit = limit,
                          !.rows = Len(Take(sqldb.tables[name], limit))]
    /\ UNCHANGED <<retrievers, collections, nextId, inserted, cache, env,
                   geo, runs, sqldb, csv, handles, lru, mmr, tasks, seen>>

\* A query text is the sequence of its statements' leading keywords (the
\* statements are separated by ";") and whether it contains " limit ".
\* q.lower().startswith("select") looks at the first keyword only.
StartsWithSelect(stmts) == Len(stmts) >= 1 /\ stmts[1] = "select"

\* The statements run in the session's transaction, on the working copy w of
\* the table; d is what is durable.  A commit inside the text makes the
\* changes before it durable.
RECURSIVE RunStmts(_, _, _, _)
RunStmts(stmts, i, w, d) ==
    IF i > Len(stmts) THEN d
    ELSE IF stmts[i] = "delete" THEN RunStmts(stmts, i + 1, <<>>, d)
    ELSE IF stmts[i] = "commit" THEN RunStmts(stmts, i + 1, w, w)
    ELSE RunStmts(stmts, i + 1, w, d)

\* session.exec(text(q)).all() and the session's close without a commit.
\* appended tells that " LIMIT n" was added to the end of the text.  A text
\* the parser rejects runs nothing; the sqlite driver refuses a text of
\* more than one statement; the postgres driver runs them all and hands
\* back the result of the last one.
Execute(db, stmts, appended) ==
    LET final == stmts[Len(stmts)]
        rows == db.tables[SqlTarget]
    IN IF appended /\ final # "select" THEN
           [raised |-> "SyntaxError", db |-> db, n |-> 0]
       ELSE IF db.backend = "sqlite" /\ Len(stmts) > 1 THEN
           [raised |-> "ProgrammingError", db |-> db, n |-> 0]
       ELSE
           [raised |-> IF final = "select" THEN None
                       ELSE "ResourceClosedError",
            db |-> [db EXCEPT !.tables[SqlTarget] =
                      RunStmts(stmts, 1, rows, rows)],
            n |-> IF final = "select" THEN Len(rows) ELSE 0]

\* run_select(sql_query, limit): limit 0 stands for None.
RunSelect(stmts, limited, limit) ==
    /\ Tick
    /\ IF ~StartsWithSelect(stmts)
       THEN /\ last' = [NoCall EXCEPT !.op = "run_select",
                          !.stmts = stmts, !.limit = limit,
                          !.raised = "ValueError"]
            /\ UNCHANGED <<server, sqldb>>
       ELSE LET x == Execute(sqldb, stmts, ~limited /\ limit # 0) IN
            /\ server' = [server EXCEPT !.sessions = @ + 1]
            /\ sqldb' = x.db
            /\ last' = [NoCall EXCEPT !.op = "run_select",
                          !.stmts = stmts, !.limit = limit,
                          !.raised = x.raised, !.rows = x.n]
    /\ UNCHANGED <<retrievers, collections, nextId, inserted, cache, env,
                   geo, runs, csv, handles, lru, mmr, tasks, seen>>

\* ------------------------------------------- the population script
\* A table's rows and a CSV export's records are sequences of source keys
\* (asunto_id, bloque_id, diputado_id / senador_id, or the vote's triple).
\* The records of file not among the keys in have, each key once: the
\* asuntos loops add every key they accept to existing_ids.
RECURSIVE FirstOnly(_, _)
FirstOnly(file, have) ==
    IF file = <<>> THEN <<>>
    ELSE IF Head(file) \in have THEN FirstOnly(Tail(file), have)
    ELSE <<Head(file)>> \o FirstOnly(Tail(file), have \cup {Head(file)})

\* The records of file not among the keys in have, repeats kept: the other
\* loops only test the keys the table held when the run began.
NotIn(file, have) == SelectSeq(file, LAMBDA k : k \notin have)

NoDup(rows) == Cardinality(Range(rows)) = Len(rows)

\* CSVDataPopulator.populate_<t>: the rows of table t after the run, the
\* count returned, the exception raised.  asunto_id, bloque_id and the
\* legislators' ids are unique columns, so a commit repeating one raises and
\* is rolled back; the votes tables have no such constraint and are filled
\* by one bulk insert, of the whole file when the table is empty.
Populate(t, rows, file) ==
    IF t \in AsuntosTables THEN
        LET new == FirstOnly(file, Range(rows))
        IN [raised |-> None, rows |-> rows \o new, added |-> Len(new)]
    ELSE IF t \in VotacionesTables THEN
        LET new == IF Range(rows) = {} THEN file
                   ELSE NotIn(file, Range(rows))
        IN [raised |-> None, rows |-> rows \o new, added |-> Len(new)]
    ELSE
        LET new == NotIn(file, Range(rows))
        IN IF NoDup(new)
           THEN [raised |-> None, rows |-> rows \o new, added |-> Len(new)]
           ELSE [raised |-> "IntegrityError", rows |-> rows, added |-> 0]

\* The populate operations of the tables order[i..], in order, until one
\* raises: the tables afterwards and the counts gathered.
RECURSIVE PopulateSeq(_, _, _, _)
PopulateSeq(order, i, tables, results) ==
    IF i > Len(order) THEN
        [raised |-> None, tables |-> tables, results |-> results]
    ELSE
        LET x == Populate(order[i], tables[order[i]], csv)
        IN IF x.raised # None
           THEN [raised |-> x.raised, tables |-> tables,
                 results |-> results]
           ELSE PopulateSeq(order, i + 1,
                            [tables EXCEPT ![order[i]] = x.rows],
                            (order[i] :> x.added) @@ results)

\* The tables populate_from_csv runs for a target, in order; <<>> for a
\* target it does not know.
Targets(target) ==
    IF target = "all" THEN PopulateAllOrder
    ELSE IF target = "asuntos"
         THEN <<"asuntos_diputados", "asuntos_senadores">>
    ELSE IF target \in AsuntosTables THEN <<target>>
    ELSE IF target = "bloques"
         THEN <<"bloques_diputados", "bloques_senadores">>
    ELSE IF target = "legisladores"
         THEN <<"legisladores_diputados", "legisladores_senadores">>
    ELSE IF target = "votaciones"
         THEN <<"votaciones_diputados", "votaciones_senadores">>
    ELSE <<>>

\* One populate_<t> call of a CSVDataPopulator.
PopulateTable(t) ==
    /\ Tick
    /\ LET x == Populate(t, sqldb.tables[t], csv) IN
       /\ sqldb' = [sqldb EXCEPT !.tables[t] = x.rows]
       /\ last' = [NoCall EXCEPT !.op = "populate", !.table = t,
                     !.raised = x.raised, !.rows = x.added,
                     !.results = (t :> x.added)]
    /\ UNCHANGED <<retrievers, collections, nextId, inserted, cache, env,
                   geo, runs, csv, server, handles, lru, mmr, tasks, seen>>

\* populate_from_csv(csv_dir, table), table already defaulted to "all".
PopulateFromCsv(table) ==
    /\ Tick
    /\ LET order == Targets(table)
           x == PopulateSeq(order, 1, sqldb.tables, <<>>)
       IN IF order = <<>>
          THEN /\ last' = [NoCall EXCEPT !.op = "populate_from_csv",
                             !.table = table, !.raised = "ValueError"]
               /\ UNCHANGED sqldb
          ELSE /\ sqldb' = [sqldb EXCEPT !.tables = x.tables]
               /\ last' = [NoCall EXCEPT !.op = "populate_from_csv",
                             !.table = table, !.raised = x.raised,
                             !.results = x.results]
    /\ UNCHANGED <<retrievers, collections, nextId, inserted, cache, env,
                   geo, runs, csv, server, handles, lru, mmr, tasks, seen>>

\* ------------------------------------------- the collection script
\* create_collection_from_table(retriever, conn, table_name,
\* collection_name, converter_func, force), one process per run, split at
\* its calls to the vector database.  A run's steps lists what it has done.
Stopped(p) == runs[p].pc \in {"idle", "done", "failed"}

RunStep(p, run) ==
    /\ runs' = [runs EXCEPT ![p] = run]
    /\ last' = [NoCall EXCEPT !.op = "run", !.proc = p,
                  !.name = ScriptCollection, !.force = run.force,
                  !.existed = Exists(ScriptCollection),
                  !.raised = run.raised]

\* Lines 128-140: skip an existing collection unless forcing; otherwise
\* read the table and convert its rows.
Checked(run) ==
    IF Exists(ScriptCollection) /\ ~run.force
    THEN [run EXCEPT !.pc = "done", !.steps = Append(@, "exists")]
    ELSE [run EXCEPT !.pc = "create", !.docs = TableRows,
                     !.steps = @ \o <<"exists", "read">>]

\* Mutant: a forcing run that goes on without deleting.
RunStartNoDelete(p, force) ==
    /\ Tick
    /\ p \in DOMAIN retrievers
    /\ Stopped(p)
    /\ handles' = [k \in {h \in DOMAIN handles : h[2] # p} |-> handles[k]]
    /\ mmr' = [k \in {h \in DOMAIN mmr : h[1] # p} |-> mmr[k]]
    /\ lru' = [order |-> [m \in Modes |->
                            SelectSeq(lru.order[m], LAMBDA k : k[1] # p)],
               gens |-> [k \in {h \in DOMAIN lru.gens : h[2] # p}
                           |-> lru.gens[k]]]
    /\ LET run == [IdleRun EXCEPT !.force = force,
                     !.before = IF Exists(ScriptCollection)
                                THEN DOMAIN collections[ScriptCollection].docs
                                ELSE {}]
       IN RunStep(p, [run EXCEPT !.pc = "check",
                                 !.steps = IF force THEN <<"exists">>
                                           ELSE <<>>])
    /\ UNCHANGED <<retrievers, collections, nextId, inserted, cache, env,
                   geo, sqldb, csv, server, tasks, seen>>

\* A new process starts a run: a Retriever with empty memo caches, then
\* line 123, which asks the database only when forcing, and for a run that
\* is not forcing line 129 at once.
RunStart(p, force) ==
    /\ Tick
    /\ p \in DOMAIN retrievers
    /\ Stopped(p)
    /\ handles' = [k \in {h \in DOMAIN handles : h[2] # p} |-> handles[k]]
    /\ mmr' = [k \in {h \in DOMAIN mmr : h[1] # p} |-> mmr[k]]
    /\ lru' = [order |-> [m \in Modes |->
                            SelectSeq(lru.order[m], LAMBDA k : k[1] # p)],
               gens |-> [k \in {h \in DOMAIN lru.gens : h[2] # p}
                           |-> lru.gens[k]]]
    /\ LET run == [IdleRun EXCEPT !.force = force,
                     !.before = IF Exists(ScriptCollection)
                                THEN DOMAIN collections[ScriptCollection].docs
                                ELSE {}]
       IN IF ~force THEN RunStep(p, Checked(run))
          ELSE RunStep(p, [run EXCEPT
                             !.pc = IF Exists(ScriptCollection)
                                    THEN "delete" ELSE "check",
                             !.steps = <<"exists">>])
    /\ UNCHANGED <<retrievers, collections, nextId, inserted, cache, env,
                   geo, sqldb, csv, server, tasks, seen>>

\* Line 125: delete_collection, which a missing collection makes a no-op.
RunDelete(p) ==
    /\ Tick
    /\ runs[p].pc = "delete"
    /\ collections' = IF Exists(ScriptCollection)
                      THEN Remove(collections, ScriptCollection)
                      ELSE collections
    /\ RunStep(p, [runs[p] EXCEPT !.pc = "check",
                                  !.steps = Append(@, "delete")])
    /\ UNCHANGED <<retrievers, nextId, inserted, cache, env, geo, sqldb,
                   csv, server, handles, lru, mmr, tasks, seen>>

\* Lines 128-140 of a forcing run.
RunCheck(p) ==
    /\ Tick
    /\ runs[p].pc = "check"
    /\ RunStep(p, Checked(runs[p]))
    /\ UNCHANGED <<retrievers, collections, nextId, inserted, cache, env,
                   geo, sqldb, csv, server, handles, lru, mmr, tasks, seen>>

\* Line 143, create_collection's own collection_exists.
RunCreateCheck(p) ==
    /\ Tick
    /\ runs[p].pc = "create"
    /\ RunStep(p, [runs[p] EXCEPT
                     !.pc = IF Exists(ScriptCollection) THEN "insert"
                            ELSE "create_call",
                     !.steps = Append(@, "exists")])
    /\ UNCHANGED <<retrievers, collections, nextId, inserted, cache, env,
                   geo, sqldb, csv, server, handles, lru, mmr, tasks, seen>>

\* Line 143, create_collection's create call: the database refuses to
\* create a collection that exists by now.
RunCreateCall(p) ==
    /\ Tick
    /\ runs[p].pc = "create_call"
    /\ IF Exists(ScriptCollection)
       THEN /\ RunStep(p, [runs[p] EXCEPT !.pc = "failed",
                                          !.raised = "Conflict",
                                          !.steps = Append(@, "create")])
            /\ UNCHANGED <<collections, inserted>>
       ELSE /\ collections' =
                 (ScriptCollection :> NewCollection(retrievers[p]))
                   @@ collections
            /\ inserted' = [inserted EXCEPT ![ScriptCollection] = 0]
            /\ RunStep(p, [runs[p] EXCEPT !.pc = "insert",
                                          !.steps = Append(@, "create")])
    /\ UNCHANGED <<retrievers, nextId, cache, env, geo, sqldb, csv, server,
                   handles, lru, mmr, tasks, seen>>

\* Lines 144-151: insert_text_chunks; an exception ends the run.
RunInsert(p, fs) ==
    /\ runs[p].pc = "insert"
    /\ InsertBody(p, ScriptCollection, runs[p].docs, fs)
    /\ runs' = [runs EXCEPT
                  ![p].pc = IF last'.raised # None THEN "failed"
                            ELSE "done",
                  ![p].raised = last'.raised,
                  ![p].steps = Append(@, "insert")]

\* ------------------------------------------------- the specifications
\* One event loop: synchronous calls run to completion, searches suspend at
\* their await and resume in any order.  Searches take the default k.
Next ==
    \/ \E r \in RIds, m \in Models \cup {None},
          d \in {<<>>} \cup {<<x>> : x \in Dims} :
          Construct(r, m, d)
    \/ \E r \in RIds, n \in Names : CreateCollection(r, n)
    \/ \E r \in RIds, n \in Names : DeleteCollection(r, n)
    \/ \E r \in RIds, n \in Names, ch \in ChunkLists, fs \in FsStates :
          InsertTextChunks(r, n, ch, fs)
    \/ \E t \in TaskIds, op \in {"dense_search", "hybrid_search"},
          r \in RIds, n \in Names, q \in Texts, fs \in FsStates :
          StartSearch(t, op, r, n, q, DefaultK, fs)
    \/ \E t \in TaskIds, r \in RIds, n \in Names, st \in Modes,
          q \in Texts, fs \in FsStates :
          StartRetrieve(t, r, n, st, q, DefaultK, fs)
    \/ \E t \in TaskIds, fs \in FsStates, tie \in Ties :
          FinishSearch(t, fs, tie)

Spec == Init /\ [][Next]_vars

\* The query side: the server's process, whose Retriever finds a collection
\* that the ingestion script populated, answering one query at a time:
\* searches of every k and search type, scrolls and cancellations.  No
\* cache path is set, so the cache directories' state is immaterial.
Dups(n) == [i \in 1..n |-> "d"]

\* Small collections of up to MaxDup copies of one text with or without a
\* distinct one, under every geometry, and one collection larger than
\* MMR's fetch.
SmallPools == {Dups(n) \o xs : n \in 0..MaxDup, xs \in {<<>>, <<"x">>}}

PoolSeqs == SmallPools \cup {Dups(FetchK + 1)}

QueryInit ==
    /\ env = [docPath |-> None, queryPath |-> None]
    /\ retrievers = (ServerRid :>
                       [model |-> "m1", dimensions |-> <<2>>,
                        docPath |-> None, queryPath |-> None])
    /\ geo \in Geos
    /\ \E pool \in PoolSeqs :
          /\ pool \in SmallPools \/ geo = TrivialGeo
          /\ collections =
               ("c1" :> [NewCollection(retrievers[ServerRid]) EXCEPT
                           !.docs = [i \in 1..Len(pool) |->
                                       [text |-> pool[i],
                                        vec |-> Provider(retrievers[ServerRid],
                                                         pool[i])]]])
          /\ nextId = Len(pool)
          /\ inserted = [n \in Names |-> Len(pool)]
    /\ cache = <<>>
    /\ handles = <<>>
    /\ mmr = <<>>
    /\ tasks = [t \in TaskIds |-> [pc |-> "idle"]]
    /\ lru = NoLru
    /\ runs = NoRuns
    /\ sqldb = NoSql
    /\ csv = <<>>
    /\ server = NoServer
    /\ calls = MaxCalls - QueryCalls
    /\ seen = <<>>
    /\ last = NoCall

QueryNext ==
    \/ \E n \in Names, k \in QKs, st \in STypes, q \in Texts,
          v \in BOOLEAN : SearchCollection(1, n, k, st, q, v, "ok")
    \/ \E n \in Names, st \in STypes, q \in Texts, k \in QKs :
          StartRetrieve(1, ServerRid, n, st, q, k, "ok")
    \/ \E tie \in Ties : FinishSearch(1, "ok", tie)
    \/ Cancel(1)
    \/ \E n \in Names, l \in Limits : Scroll(ServerRid, n, l)
    \/ \E n \in Names, ch \in ChunkLists :
          InsertTextChunks(ServerRid, n, ch, "ok")

QuerySpec == QueryInit /\ [][QueryNext]_vars

\* The tool server: a process with a populated relational database and a
\* populated collection, answering tool calls.
ToolInit ==
    /\ env = [docPath |-> None, queryPath |-> None]
    /\ retrievers = (ServerRid :>
                       [model |-> "m1", dimensions |-> <<2>>,
                        docPath |-> None, queryPath |-> None])
    /\ geo = TrivialGeo
    /\ collections =
         ("c1" :> [NewCollection(retrievers[ServerRid]) EXCEPT
                     !.docs = (1 :> [text |-> "d",
                                     vec |-> Provider(retrievers[ServerRid],
                                                      "d")])])
    /\ nextId = 1
    /\ inserted = [n \in Names |-> 1]
    /\ cache = <<>>
    /\ handles = <<>>
    /\ mmr = <<>>
    /\ tasks = [t \in TaskIds |-> [pc |-> "idle"]]
    /\ lru = NoLru
    /\ runs = NoRuns
    /\ sqldb \in {[backend |-> b, tables |-> [t \in TABLES_MAP |-> <<1, 2>>]] :
                    b \in Backends}
    /\ csv = <<>>
    /\ server = NoServer
    /\ calls = MaxCalls - ToolCalls
    /\ seen = <<>>
    /\ last = NoCall

ToolNext ==
    \/ \E n \in TableArgs : TableSchema(n)
    \/ \E n \in TableArgs, l \in Limits : TablePreview(n, l)
    \/ \E q \in Queries, ltd \in BOOLEAN, l \in LimitArgs :
          RunSelect(q, ltd, l)
    \/ \E n \in ToolNames, st \in STypes, q \in Texts, v \in BOOLEAN :
          SearchCollection(1, n, 1, st, q, v, "ok")
    \/ \E tie \in Ties : FinishSearch(1, "ok", tie)

ToolSpec == ToolInit /\ [][ToolNext]_vars

\* The population script: populate calls over fixed CSV exports, on tables
\* that are empty or already hold a row.
PopulateInit ==
    /\ env = [docPath |-> None, queryPath |-> None]
    /\ retrievers = <<>>
    /\ geo = TrivialGeo
    /\ collections = <<>>
    /\ nextId = 0
    /\ inserted = [n \in Names |-> 0]
    /\ cache = <<>>
    /\ handles = <<>>
    /\ mmr = <<>>
    /\ tasks = [t \in TaskIds |-> [pc |-> "idle"]]
    /\ lru = NoLru
    /\ runs = NoRuns
    /\ sqldb \in {[backend |-> "sqlite", tables |-> [t \in TABLES_MAP |-> pre]] :
                    pre \in {<<>>, <<1>>}}
    /\ csv \in CsvFiles
    /\ server = NoServer
    /\ calls = MaxCalls - PopulateCalls
    /\ seen = <<>>
    /\ last = NoCall

PopulateNext ==
    \/ \E t \in TABLES_MAP : PopulateTable(t)
    \/ \E sel \in TableSelections : PopulateFromCsv(sel)

PopulateSpec == PopulateInit /\ [][PopulateNext]_vars

\* One Retriever against a database of more collections than a getter's
\* cache holds.  The caller goes through the collections in order, touching
\* each with an insert of no chunks, and, once the cache is full, may come
\* back to the first.
LruName(i) == "c" \o ToString(i)

LruNames == {LruName(i) : i \in 1..(LruMaxsize + 1)}

LruCalls == LruMaxsize + 2

LruInit ==
    /\ env = [docPath |-> None, queryPath |-> None]
    /\ retrievers = (ServerRid :>
                       [model |-> "m1", dimensions |-> <<2>>,
                        docPath |-> None, queryPath |-> None])
    /\ geo = TrivialGeo
    /\ collections = [n \in LruNames |-> NewCollection(retrievers[ServerRid])]
    /\ nextId = 0
    /\ inserted = [n \in Names |-> 0]
    /\ cache = <<>>
    /\ handles = <<>>
    /\ mmr = <<>>
    /\ tasks = [t \in TaskIds |-> [pc |-> "idle"]]
    /\ lru = NoLru
    /\ runs = NoRuns
    /\ sqldb = NoSql
    /\ csv = <<>>
    /\ server = NoServer
    /\ calls = MaxCalls - LruCalls
    /\ seen = <<>>
    /\ last = NoCall

LruNext ==
    \/ \E i \in {Cardinality(DOMAIN lru.gens) + 1} :
          /\ i <= LruMaxsize + 1
          /\ InsertTextChunks(ServerRid, LruName(i), <<>>, "ok")
    \/ /\ Len(lru.order["hybrid"]) = LruMaxsize
       /\ InsertTextChunks(ServerRid, LruName(1), <<>>, "ok")

LruSpec == LruInit /\ [][LruNext]_vars

\* The collection script run again and again, one run at a time, forcing
\* or not, on a database where the collection is missing or holds an old
\* document; the embedding provider may be down during an insert.
IngestInit ==
    /\ env = [docPath |-> None, queryPath |-> None]
    /\ retrievers = [p \in ProcIds |->
                       [model |-> "m1", dimensions |-> <<2>>,
                        docPath |-> None, queryPath |-> None]]
    /\ geo = TrivialGeo
    /\ \E old \in 0..1 :
          /\ collections =
               IF old = 0 THEN <<>>
               ELSE (ScriptCollection :>
                       [NewCollection(retrievers[1]) EXCEPT
                          !.docs = (1 :> [text |-> "t1",
                                          vec |-> Provider(retrievers[1],
                                                           "t1")])])
          /\ nextId = old
          /\ inserted = [n \in Names |-> old]
    /\ cache = <<>>
    /\ handles = <<>>
    /\ mmr = <<>>
    /\ tasks = [t \in TaskIds |-> [pc |-> "idle"]]
    /\ lru = NoLru
    /\ runs = NoRuns
    /\ sqldb = NoSql
    /\ csv = <<>>
    /\ server = NoServer
    /\ calls = MaxCalls - IngestCalls
    /\ seen = <<>>
    /\ last = NoCall

IngestNext ==
    \/ \E p \in ProcIds, force \in BOOLEAN :
          /\ \A q \in ProcIds : Stopped(q)
          /\ RunStart(p, force)
    \/ \E p \in ProcIds : RunDelete(p)
    \/ \E p \in ProcIds : RunCheck(p)
    \/ \E p \in ProcIds : RunCreateCheck(p)
    \/ \E p \in ProcIds : RunCreateCall(p)
    \/ \E p \in ProcIds, fs \in {"ok", "down"} : RunInsert(p, fs)

IngestSpec == IngestInit /\ [][IngestNext]_vars

\* Two processes running the script without forcing, at the same time and
\* again once they have ended, on a database that does not hold the
\* collection at first.
RaceInit ==
    /\ env = [docPath |-> None, queryPath |-> None]
    /\ retrievers = [p \in ProcIds |->
                       [model |-> "m1", dimensions |-> <<2>>,
                        docPath |-> None, queryPath |-> None]]
    /\ geo = TrivialGeo
    /\ collections = <<>>
    /\ nextId = 0
    /\ inserted = [n \in Names |-> 0]
    /\ cache = <<>>
    /\ handles = <<>>
    /\ mmr = <<>>
    /\ tasks = [t \in TaskIds |-> [pc |-> "idle"]]
    /\ lru = NoLru
    /\ runs = NoRuns
    /\ sqldb = NoSql
    /\ csv = <<>>
    /\ server = NoServer
    /\ calls = MaxCalls - RaceCalls
    /\ seen = <<>>
    /\ last = NoCall

RaceNext ==
    \/ \E p \in ProcIds : RunStart(p, FALSE)
    \/ \E p \in ProcIds : RunCreateCheck(p)
    \/ \E p \in ProcIds : RunCreateCall(p)
    \/ \E p \in ProcIds : RunInsert(p, "ok")

RaceSpec == RaceInit /\ [][RaceNext]_vars

\* ---------------------------------------------------------------- claims
DocIds(c) == DOMAIN c.docs

\* C1: create_collection on a name that already exists returns without
\* raising, issues no create call to the database and leaves the existing
\* collection (schema and documents) exactly as it was.
C1_CreateExistingIsNoOp ==
    [][(last'.op = "create" /\ last'.name \in DOMAIN collections)
         => /\ last'.raised = None
            /\ ~last'.dbCreate
            /\ collections' = collections]_vars

\* A create_collection call has hit an existing collection that holds
\* documents.
C1_Witness ==
    /\ last.op = "create"
    /\ last.existed
    /\ last.name \in DOMAIN collections
    /\ DocIds(collections[last.name]) # {}

\* C2: insert_text_chunks on a name that does not exist returns without
\* raising, stores nothing, builds no handle, calls no embedding provider
\* and does not create the collection.
C2_InsertMissingIsNoOp ==
    [][(last'.op = "insert" /\ last'.name \notin DOMAIN collections)
         => /\ last'.raised = None
            /\ last'.addCalls = 0
            /\ ~last'.built
            /\ last'.prov = {}
            /\ ~last'.dbCreate
            /\ UNCHANGED <<collections, handles, cache, nextId>>]_vars

\* An insert of at least one chunk has hit a missing collection.
C2_Witness ==
    /\ last.op = "insert"
    /\ ~last.existed
    /\ last.n > 0
    /\ last.name \notin DOMAIN collections

\* C3: a successful insert of n chunks makes one add call with n pairwise
\* distinct ids, none of them stored before; it adds exactly those n
\* documents and overwrites none; and the document count of a collection
\* always equals the number of chunks inserted into it.
C3_InsertAddsFreshDocuments ==
    [][(/\ last'.op = "insert"
        /\ last'.name \in DOMAIN collections
        /\ last'.raised = None)
         => LET pre == collections[last'.name].docs
                post == collections'[last'.name].docs
            IN /\ last'.addCalls = 1
               /\ Cardinality(last'.ids) = last'.n
               /\ last'.ids \cap DOMAIN pre = {}
               /\ DOMAIN post = DOMAIN pre \cup last'.ids
               /\ \A id \in DOMAIN pre : post[id] = pre[id]
               /\ Cardinality(DOMAIN post) = inserted'[last'.name]]_vars

\* A second successful insert has added documents to a collection that
\* already held some.
C3_Witness ==
    /\ last.op = "insert"
    /\ last.existed
    /\ last.raised = None
    /\ last.n > 0
    /\ last.name \in DOMAIN collections
    /\ Cardinality(DocIds(collections[last.name])) > last.n

HandleKey(c) == <<c.mode, c.rid, c.name>>

\* C4: however the searches of one event loop interleave, a key
\* (collection_name, mode) of a Retriever has at most one handle: the cached
\* handle is the first one built, and every suspended caller holds it.
C4_OneHandlePerKey ==
    /\ \A k \in DOMAIN handles : handles[k] = 1
    /\ \A k \in DOMAIN mmr :
          /\ <<k[3], k[1], k[2]>> \in DOMAIN handles
          /\ mmr[k] = handles[<<k[3], k[1], k[2]>>]
    /\ \A t \in TaskIds :
          tasks[t].pc = "await"
            => /\ HandleKey(tasks[t]) \in DOMAIN handles
               /\ tasks[t].handle = handles[HandleKey(tasks[t])]

\* Two searches are in flight on the same key: the second made its access
\* while the first, which built the handle, was still suspended.
C4_Witness ==
    /\ \A t \in TaskIds : tasks[t].pc = "await"
    /\ \A t, u \in TaskIds : HandleKey(tasks[t]) = HandleKey(tasks[u])
    /\ \E t, u \in TaskIds : t # u

SeenStores == Paths \cup {None}

\* C5 as stated: the provider is invoked at most once for a text by one
\* Retriever's dense embeddings: no call invokes it for a text an earlier
\* embed call of that Retriever already returned.
C5_ProviderAtMostOnce ==
    [][\A k \in last'.prov :
          ~(\E st \in SeenStores : <<last'.rid, st, k[2]>> \in DOMAIN seen)]_vars

\* C5 amended: through a cache store, a text whose embedding the Retriever
\* already obtained from that store is served without a provider call and
\* with the identical vector, and no cache entry is ever removed or
\* replaced.  (Without a document cache path there is no store.)
C5_CacheIdempotence ==
    [][/\ \A k \in last'.prov \cup DOMAIN last'.vecs :
             (k[1] # None /\ <<last'.rid, k[1], k[2]>> \in DOMAIN seen)
               => /\ k \notin last'.prov
                  /\ k \in DOMAIN last'.vecs
                       => last'.vecs[k] = seen[<<last'.rid, k[1], k[2]>>]
       /\ \A c \in DOMAIN cache :
             c \in DOMAIN cache' /\ cache'[c] = cache[c]]_vars

\* The only Retriever has embedded a chunk text through its cache store
\* with no provider call: the text was served from the cache.
C5_Witness ==
    /\ DOMAIN retrievers = {1}
    /\ last.op = "insert"
    /\ last.raised = None
    /\ \E k \in DOMAIN last.vecs :
          k[1] # None /\ k[2] \in Texts /\ k \notin last.prov

\* C6: a failure of the cache's store never aborts a call; the call falls
\* back to the provider and returns.
C6_CacheFailsOpen == last.raised # "StoreError"

\* C7: construction with a provider whose dimensions or model is None fails,
\* before the cache wrapper, the sparse adapter and the database client are
\* created; every Retriever that exists has both.
C7_ConstructionNeedsModelAndDimension ==
    /\ \A r \in DOMAIN retrievers :
          retrievers[r].model # None /\ retrievers[r].dimensions # <<>>
    /\ (last.op = "init"
          /\ (last.provider[1] = None \/ last.provider[2] = <<>>))
         => /\ last.raised = "AssertionError"
            /\ last.rid \notin DOMAIN retrievers
            /\ \A i \in DOMAIN last.steps :
                  last.steps[i] \notin {"dense_embeddings",
                                        "sparse_embeddings", "qdrant_client"}

\* A construction has failed on a provider that has dimensions but no model.
C7_Witness ==
    /\ last.op = "init"
    /\ last.raised = "AssertionError"
    /\ last.provider[1] = None
    /\ last.provider[2] # <<>>

Completed(l) ==
    \/ l.op = "insert" /\ l.n > 0
    \/ l.op \in {"dense_search", "hybrid_search", "retrieve"} /\ ~l.suspended

\* C8: an insert or a search by a Retriever whose dimension is not the
\* collection's fails with a dimension-mismatch error and leaves the
\* collection as it was (a call aborted by a cache-store failure aside).
C8_MismatchIsRejected ==
    [][(/\ Completed(last')
        /\ last'.name \in DOMAIN collections
        /\ retrievers[last'.rid].dimensions[1]
             # collections[last'.name].size)
         => /\ last'.raised \in {"DimMismatch", "StoreError"}
            /\ collections' = collections]_vars

C10_SearchMissingReturnsEmpty ==
    (/\ last.op \in {"dense_search", "hybrid_search", "retrieve"}
     /\ ~last.existed
     /\ ~last.suspended)
      => last.raised = None

SearchOps == {"dense_search", "hybrid_search", "retrieve"}

\* C11: dense_search, hybrid_search and retrieve with k <= 0 are rejected
\* before anything is done: the call raises, does not suspend, builds no
\* handle and calls no embedding provider.
C11_NonPositiveKRejected ==
    (last.op \in SearchOps /\ last.k <= 0)
      => /\ last.raised # None
         /\ ~last.suspended
         /\ ~last.built
         /\ last.prov = {}

C13_ScrollVisitsEachOnce ==
    [][(/\ last.op = "scroll" /\ last.raised = None /\ last.next # <<>>
        /\ last'.op = "scroll" /\ last'.raised = None
        /\ last'.name = last.name /\ last'.limit = last.limit
        /\ collections' = collections)
         => Range(last'.page) \cap Range(last.page) = {}]_vars

Returned(l) ==
    /\ l.op \in SearchOps
    /\ ~l.suspended
    /\ ~l.cancelled
    /\ l.raised = None
    /\ l.name \in DOMAIN collections

\* C14: every item dense_search or hybrid_search returns carries the score
\* the vector store reported for its document (the cosine, or the fused
\* reciprocal-rank score), and every item retrieve returns carries none.
C14_ScoreOnlyOnSearch ==
    Returned(last) =>
        LET docs == collections[last.name].docs
            dense == DenseQuery(docs, last.query, last.k, last.tie)
            sparse == SparseQuery(docs, last.query, last.k, last.tie)
        IN \A i \in 1..Len(last.items) :
              LET it == last.items[i] IN
              /\ last.op = "retrieve" => it.score = <<>>
              /\ last.op = "dense_search" =>
                    it.score = <<Cos(last.query, docs[it.id].vec.text),
                                 CosScale>>
              /\ last.op = "hybrid_search" =>
                    it.score = RrfScore(dense, sparse)[it.id]

\* A dense_search has returned two scored items.
C14_Witness ==
    /\ Returned(last)
    /\ last.op = "dense_search"
    /\ Len(last.items) >= 2

CountOf(docs, t) == Cardinality({id \in DOMAIN docs : docs[id].text = t})

\* C15: with k + 1 duplicates of one document and one distinct document,
\* less similar to the query, in the collection, retrieve with k returns
\* the distinct document and at most one of the duplicates.
C15_MmrDropsDuplicates ==
    (/\ Returned(last)
     /\ last.op = "retrieve"
     /\ last.k >= 1
     /\ CountOf(collections[last.name].docs, "d") = last.k + 1
     /\ CountOf(collections[last.name].docs, "x") = 1
     /\ Cardinality(DOMAIN collections[last.name].docs) = last.k + 2
     /\ Cos("d", "x") < Cos("d", "d") - 1
     /\ Cos(last.query, "x") < Cos(last.query, "d"))
      => /\ \E i \in 1..Len(last.items) : last.items[i].text = "x"
         /\ Cardinality({i \in 1..Len(last.items) :
                            last.items[i].text = "d"}) <= 1

\* C16: retrieve with k >= 1 fetches at least k candidates whenever the
\* collection holds at least k documents, and returns exactly
\* min(k, number of documents) items, no document twice.
C16_RetrieveReturnsMinKN ==
    (Returned(last) /\ last.op = "retrieve" /\ last.k >= 1)
      => LET n == Cardinality(DOMAIN collections[last.name].docs)
             ids == {last.items[i].id : i \in 1..Len(last.items)}
         IN /\ n >= last.k => last.fetched >= last.k
            /\ Len(last.items) = IF last.k < n THEN last.k ELSE n
            /\ Cardinality(ids) = Len(last.items)

\* The candidates of a returned hybrid_search that are in exactly one of
\* its two sub-rankings.
SingleSignal(dense, sparse) ==
    (Range(dense) \cup Range(sparse)) \ (Range(dense) \cap Range(sparse))

AtLeast(a, b) == a[1] * b[2] >= b[1] * a[2]

\* C17 as stated: a candidate in only one sub-ranking is returned whenever
\* fewer than k other candidates have a strictly better fused score.
C17_SingleSignalStrict ==
    (Returned(last) /\ last.op = "hybrid_search")
      => LET docs == collections[last.name].docs
             dense == DenseQuery(docs, last.query, last.k, last.tie)
             sparse == SparseQuery(docs, last.query, last.k, last.tie)
             sc == RrfScore(dense, sparse)
             ids == {last.items[i].id : i \in 1..Len(last.items)}
         IN \A id \in SingleSignal(dense, sparse) :
               Cardinality({o \in DOMAIN sc \ {id} :
                              ~AtLeast(sc[id], sc[o])}) < last.k
                 => id \in ids

\* C17 amended: a candidate in only one sub-ranking is scored by the
\* reciprocal rank of the signal it has, the other counting zero, and is
\* returned whenever fewer than k other candidates have a fused score
\* better than or equal to its own.
C17_SingleSignalEligible ==
    (Returned(last) /\ last.op = "hybrid_search")
      => LET docs == collections[last.name].docs
             dense == DenseQuery(docs, last.query, last.k, last.tie)
             sparse == SparseQuery(docs, last.query, last.k, last.tie)
             sc == RrfScore(dense, sparse)
             ids == {last.items[i].id : i \in 1..Len(last.items)}
         IN \A id \in SingleSignal(dense, sparse) :
               LET own == IF id \in Range(dense) THEN dense ELSE sparse IN
               /\ \A i \in 1..Len(last.items) :
                     last.items[i].id = id =>
                        last.items[i].score[1] * (PosIn(own, id) - 1 + RrfK)
                          = last.items[i].score[2]
               /\ Cardinality({o \in DOMAIN sc \ {id} :
                                 AtLeast(sc[o], sc[id])}) < last.k
                    => id \in ids

\* A hybrid_search has returned a document that only the sparse
\* sub-ranking held, next to one that only the dense sub-ranking held.
C17_Witness ==
    /\ Returned(last)
    /\ last.op = "hybrid_search"
    /\ LET docs == collections[last.name].docs
           dense == DenseQuery(docs, last.query, last.k, last.tie)
           sparse == SparseQuery(docs, last.query, last.k, last.tie)
           ids == {last.items[i].id : i \in 1..Len(last.items)}
       IN /\ ids \cap (Range(sparse) \ Range(dense)) # {}
          /\ ids \cap (Range(dense) \ Range(sparse)) # {}

\* C18: no step of dense_search, hybrid_search, retrieve, scroll or the
\* search tool - started, completed, failed or cancelled - changes any
\* collection's documents or schema.
C18_QueriesAreReadOnly ==
    [][last'.op \in SearchOps \cup {"scroll", "search_collection"}
         => collections' = collections]_vars

\* A search on a collection that holds documents has been cancelled at its
\* await.
C18_Witness ==
    /\ last.cancelled
    /\ last.raised = "CancelledError"
    /\ last.name \in DOMAIN collections
    /\ DocIds(collections[last.name]) # {}

\* C19: every vector a Retriever's dense embeddings return has that
\* Retriever's declared dimension.
C19_VectorsHaveDeclaredLength ==
    \A key \in DOMAIN last.vecs :
        last.vecs[key].len = retrievers[last.rid].dimensions[1]

\* C20: a collection create_collection has just created has a cosine dense
\* field of the creating Retriever's dimension and a sparse field whose
\* index is on disk.
C20_CreatedSchema ==
    (last.op = "create" /\ last.dbCreate /\ last.name \in DOMAIN collections)
      => /\ collections[last.name].size
              = retrievers[last.rid].dimensions[1]
         /\ collections[last.name].distance = "COSINE"
         /\ collections[last.name].sparseOnDisk

\* A call record made by the search_collection tool.
ToolSearch(l) == l.op = "search_collection" \/ l.via # None

C22_RunSelectReadOnly ==
    [][last'.op = "run_select"
         => /\ last'.stmts # <<"select">>
                 => /\ last'.raised # None
                    /\ server'.sessions = server.sessions
            /\ sqldb' = sqldb]_vars

\* C23: populate_from_csv accepts every value of TABLE_CHOICES: it never
\* raises the unsupported-selection error for one, and what it returns are
\* the counts of exactly the table or tables named.
C23_EveryChoiceAccepted ==
    (last.op = "populate_from_csv" /\ last.table \in TABLE_CHOICES)
      => /\ last.raised # "ValueError"
         /\ last.raised = None
              => DOMAIN last.results
                   = IF last.table = "all" THEN TABLES_MAP
                     ELSE {last.table}

\* C27: every table holds at most one row per source key, and a populate
\* run of a table that directly follows a completed run of the same table
\* over the same file adds nothing and returns 0.
C27_PopulateIdempotent ==
    [][/\ \A t \in TABLES_MAP : NoDup(sqldb.tables[t]) => NoDup(sqldb'.tables[t])
       /\ (/\ last.op = "populate" /\ last.raised = None
           /\ last'.op = "populate" /\ last'.table = last.table)
            => /\ last'.raised = None
               /\ last'.rows = 0
               /\ sqldb' = sqldb]_vars

\* C24: on one Retriever, whatever the calls and however many the
\* collection names, no (collection_name, mode) ever gets a second handle:
\* every access returns the one handle first built for it.
C24_HandleNeverRebuilt ==
    /\ \A k \in DOMAIN lru.gens : lru.gens[k] <= 1
    /\ \A k \in DOMAIN handles : handles[k] = 1

\* A search or retrieve has embedded its query and come back.
QueryEmbedded(l) ==
    /\ l.op \in SearchOps
    /\ l.query # None
    /\ l.raised # "StoreError"
    /\ l.rid \in DOMAIN retrievers

\* C25: the two caches are configured independently.  With a document
\* cache path and no query cache path, query embeddings are not cached:
\* every query embed calls the provider and leaves no cache entry.  With a
\* query cache path and no document cache path, query embeddings are
\* cached: an embedded query has its entry in the query store.
C25_CachesIndependent ==
    QueryEmbedded(last) =>
        LET rv == retrievers[last.rid] IN
        /\ (rv.docPath # None /\ rv.queryPath = None)
             => /\ \A key \in DOMAIN last.vecs : key \in last.prov
                /\ \A p \in Paths :
                      CacheKey(p, rv, last.query) \notin DOMAIN cache
        /\ (rv.docPath = None /\ rv.queryPath # None)
             => CacheKey(rv.queryPath, rv, last.query) \in DOMAIN cache

\* The script collection's document ids, none when it is missing.
ScriptIds(cols) ==
    IF ScriptCollection \in DOMAIN cols
    THEN DOMAIN cols[ScriptCollection].docs ELSE {}

\* C26: run one at a time, create_collection_from_table deletes the
\* collection only in a forcing run that found it; a run that is not forcing
\* and finds the collection ends at once, having only asked whether it
\* exists, and changes nothing; a forcing run that completes leaves one
\* document per table row, each holding a row's text, and none of the
\* documents the collection held when the run started.
C26_ForceFrame ==
    [][\A p \in ProcIds :
         /\ (ScriptIds(collections) \ ScriptIds(collections') # {}
               \/ (Exists(ScriptCollection)
                     /\ ScriptCollection \notin DOMAIN collections'))
              => (\E q \in ProcIds : /\ runs[q].pc = "delete"
                                     /\ runs[q].force
                                     /\ runs'[q].steps
                                          = Append(runs[q].steps, "delete"))
         /\ (runs'[p].steps = Append(runs[p].steps, "delete"))
              => runs[p].force /\ Exists(ScriptCollection)
         /\ (Stopped(p) /\ runs'[p] # runs[p] /\ ~runs'[p].force
               /\ Exists(ScriptCollection))
              => /\ runs'[p].pc = "done"
                 /\ runs'[p].steps = <<"exists">>
                 /\ collections' = collections
                 /\ nextId' = nextId
         /\ (runs[p].pc = "insert" /\ runs'[p].pc = "done" /\ runs[p].force)
              => /\ ScriptCollection \in DOMAIN collections'
                 /\ Cardinality(ScriptIds(collections')) = Len(TableRows)
                 /\ ScriptIds(collections') \cap runs[p].before = {}
                 /\ \A d \in ScriptIds(collections') :
                       \E i \in 1..Len(TableRows) :
                          collections'[ScriptCollection].docs[d].text
                            = TableRows[i]
      ]_vars

\* A forcing run over a collection that held a document has deleted it and
\* completed.
C26_Witness ==
    \E p \in ProcIds :
       /\ runs[p].pc = "done"
       /\ runs[p].force
       /\ runs[p].before # {}
       /\ runs[p].steps
            = <<"exists", "delete", "exists", "read", "exists", "create",
                "insert">>
       /\ ScriptIds(collections) # {}

\* C28: a dense_search or hybrid_search whose vector store returned hits,
\* whatever their scores, does not fail and returns one RetrieverItem per
\* hit, each carrying a stored document's text and a score.
C28_EveryHitParsed ==
    (/\ last.op \in {"dense_search", "hybrid_search"}
     /\ ~last.suspended
     /\ ~last.cancelled
     /\ last.fetched > 0)
      => /\ last.raised = None
         /\ Len(last.items) = last.fetched
         /\ \A i \in 1..Len(last.items) : last.items[i].score # <<>>

\* How many of the script collection's documents hold the text of row i.
RowDocs(i) ==
    Cardinality({d \in ScriptIds(collections) :
                   collections[ScriptCollection].docs[d].text
                     = TableRows[i]})

\* C29: whatever runs came before, failed ones among them, a run that is
\* not forcing and has just completed leaves the collection existing and
\* holding a document for every table row.
C29_CompletedRunPopulates ==
    \A p \in ProcIds :
       (/\ runs[p].pc = "done"
        /\ ~runs[p].force
        /\ last.proc = p \/ (last.op = "insert" /\ last.rid = p))
         => /\ Exists(ScriptCollection)
            /\ \A i \in 1..Len(TableRows) : RowDocs(i) >= 1

\* C30: once two concurrent runs that are not forcing have both ended,
\* neither was refused by the database for creating a collection the other
\* had created, and when both completed every table row is held by exactly
\* one document.
C30_ConcurrentRunsIndexOnce ==
    (\A p \in ProcIds : runs[p].pc \in {"done", "failed"})
      => /\ \A p \in ProcIds : runs[p].raised # "Conflict"
         /\ (\A p \in ProcIds : runs[p].pc = "done")
              => /\ Cardinality(ScriptIds(collections)) = Len(TableRows)
                 /\ \A i \in 1..Len(TableRows) : RowDocs(i) >= 1
====
